---- MODULE Spec2Model ----
(***************************************************************************)
(* HybridTableRag: schema profiling (DuckDBManager), relationship          *)
(* inference, prompt construction and guarded SQL generation               *)
(* (LLMSQLGenerator), as driven by pipeline.py; the row index and its      *)
(* search (EmbeddingStore, SemanticRetriever).                             *)
(*                                                                         *)
(* Text is modelled by TLA+ strings, character by character (Len, SubSeq   *)
(* and \o), so that trimming, case folding, substring search, replacement  *)
(* and the regular expressions of the source act on the real characters.   *)
(***************************************************************************)
EXTENDS Integers, Sequences, FiniteSets, TLC

VARIABLES
    store,            \* the DuckDB catalog: table name -> table (or absent)
    registered,       \* number of register_csv calls made so far
    pc,               \* position of the caller in the pipeline
    schema_metadata,  \* pipeline.py:8   result of build_structured_schema_metadata
    fault,            \* index of the store query that failed in the last profiling pass (0: none)
    relationships,    \* pipeline.py:9   result of infer_relationships_structured
    request,          \* arguments of generate_sql and the backend's response
    prompt,           \* the prompt handed to the backend, as a sequence of sections
    outcome,          \* what generate_sql returned or raised
    executed,         \* the SQL texts handed to execute_query
    store_dir,        \* faiss_index and faiss_meta.pkl in store_dir
    embedding_store,  \* the EmbeddingStore object: index and metadata
    retriever,        \* what constructing a SemanticRetriever came to
    retrieved         \* what the last search returned or raised

pipelineVars == <<store, registered, pc, schema_metadata, fault, relationships,
                  request, prompt, outcome, executed>>

retrievalVars == <<store_dir, embedding_store, retriever, retrieved>>

vars == <<store, registered, pc, schema_metadata, fault, relationships,
          request, prompt, outcome, executed, store_dir, embedding_store, retriever, retrieved>>

-----------------------------------------------------------------------------
(* Bounds of the model *)

MaxCols == 2        \* columns per table
MaxTables == 2      \* tables of the catalog in the inference specification
MaxRegister == 2    \* register_csv calls in one run of the pipeline
MaxBatch == 2       \* rows of one build_index call
MaxIndexed == 3     \* rows the index holds
MaxTopK == 3        \* top_k of a query

-----------------------------------------------------------------------------
(* The store *)

\* Table names, in the order SHOW TABLES lists them (by name).
TableNameOrder == <<"customers", "orders", "products", "regions">>

PipelineTables == {"customers", "orders"}

AllTableNames == {TableNameOrder[i] : i \in 1..Len(TableNameOrder)}

NoTable == [present |-> FALSE, row_count |-> 0, columns |-> <<>>]

Column(n, t, d) == [name |-> n, type |-> t, distinct_count |-> d]

Table(rc, cols) == [present |-> TRUE, row_count |-> rc, columns |-> cols]

EmptyStore == [t \in AllTableNames |-> NoTable]

\* Row counts of a generated table. Profiling and inference read a column's
\* counts only through distinct_count = row_count: a table of no row (every
\* column unique) and of one row (a column unique or, its value NULL, not)
\* give every combination; the CSV files below have two rows.
RowCounts == 0..1

\* (name, type) pairs a column of a generated table is drawn from
ColumnPool == { <<"id", "INTEGER">>, <<"customer_id", "INTEGER">>, <<"id", "VARCHAR">> }

ColumnLists(rc) ==
    { cols \in UNION { [1..n -> {Column(p[1], p[2], d) : p \in ColumnPool, d \in 0..rc}]
                        : n \in 1..MaxCols } :
        \A i, j \in DOMAIN cols : i # j => cols[i].name # cols[j].name }

\* every table of at most MaxCols columns; DuckDB keeps the column names of
\* one table distinct, and COUNT(DISTINCT c) <= COUNT(*)
TableShapes == UNION { {Table(rc, cols) : cols \in ColumnLists(rc)} : rc \in RowCounts }

InferenceTables == {TableNameOrder[i] : i \in 1..MaxTables}

InferenceStores ==
    { [t \in AllTableNames |-> IF t \in InferenceTables THEN f[t] ELSE NoTable]
        : f \in [InferenceTables -> TableShapes \cup {NoTable}] }

\* The CSV files of the pipeline runs: the tables read_csv_auto makes of them.
OrdersCsv ==
    Table(2, <<Column("id", "INTEGER", 2), Column("customer_id", "INTEGER", 1)>>)

CustomersCsv ==
    Table(2, <<Column("id", "INTEGER", 2), Column("name", "VARCHAR", 2)>>)

CustomersKeyedCsv ==
    Table(2, <<Column("customer_id", "INTEGER", 2), Column("name", "VARCHAR", 1)>>)

CsvFiles == {OrdersCsv, CustomersCsv, CustomersKeyedCsv}

\* register_csv: CREATE OR REPLACE TABLE table_name AS SELECT * FROM read_csv_auto(file)
register_csv_store(st, table_name, csv) == [st EXCEPT ![table_name] = csv]

RECURSIVE SelectPresent(_, _)
SelectPresent(st, i) ==
    IF i > Len(TableNameOrder) THEN <<>>
    ELSE (IF st[TableNameOrder[i]].present THEN <<TableNameOrder[i]>> ELSE <<>>)
         \o SelectPresent(st, i + 1)

\* list_tables: SHOW TABLES
list_tables(st) == SelectPresent(st, 1)

-----------------------------------------------------------------------------
(* build_structured_schema_metadata *)

\* the least element of a non-empty set of numbers
Least(S) == CHOOSE i \in S : \A j \in S : i <= j

\* str.find from position i on, counting from 1; 0 if there is no occurrence
FindFrom(needle, hay, i) ==
    LET at == {k \in i..(Len(hay) - Len(needle) + 1) : SubSeq(hay, k, k + Len(needle) - 1) = needle}
    IN  IF at = {} THEN 0 ELSE Least(at)

Find(needle, hay) == FindFrom(needle, hay, 1)

Contains(needle, hay) == Find(needle, hay) > 0

\* _safe_serialize: an int is none of date, Decimal, numpy scalar and is returned as it is
safe_serialize(value) == value

IsNumericType(col_type) ==
    \E t \in {"INT", "DOUBLE", "FLOAT", "DECIMAL"} : Contains(t, col_type)

IsDateType(col_type) == Contains("DATE", col_type)

\* store queries issued for one column: null count, distinct count, min/max
\* for numeric types, min/max for date types, sample values
QueriesOfColumn(col) ==
    3 + (IF IsNumericType(col.type) THEN 1 ELSE 0) + (IF IsDateType(col.type) THEN 1 ELSE 0)

RECURSIVE QueriesOfColumns(_, _)
QueriesOfColumns(cols, i) ==
    IF i > Len(cols) THEN 0 ELSE QueriesOfColumn(cols[i]) + QueriesOfColumns(cols, i + 1)

\* store queries issued for one table: COUNT(*), DESCRIBE, then the columns'
QueriesOfTable(tbl) == 2 + QueriesOfColumns(tbl.columns, 1)

RECURSIVE QueriesOfTables(_, _, _)
QueriesOfTables(st, tables, i) ==
    IF i > Len(tables) THEN 0
    ELSE QueriesOfTable(st[tables[i]]) + QueriesOfTables(st, tables, i + 1)

\* all queries of one profiling pass, SHOW TABLES included
QueriesOfPass(st) == 1 + QueriesOfTables(st, list_tables(st), 1)

column_meta(col, row_count) ==
    [name |-> col.name,
     type |-> col.type,
     distinct_count |-> safe_serialize(col.distinct_count),
     unique |-> (col.distinct_count = row_count)]

table_meta(table, tbl) ==
    [table_name |-> table,
     row_count |-> safe_serialize(tbl.row_count),
     columns |-> [i \in 1..Len(tbl.columns) |-> column_meta(tbl.columns[i], tbl.row_count)]]

Raised(msg) == [raised |-> TRUE, error |-> msg, value |-> <<>>]

Returned(v) == [raised |-> FALSE, error |-> "", value |-> v]

\* a handler that would return what was profiled before the failure
ProfilingFailedPartial(metadata) == Returned(metadata)

\* except Exception: raise RuntimeError; the partial list goes out of scope
ProfilingFailed(metadata) == Raised("Structured schema metadata build failed")

\* the loop over the tables; issued counts the queries made before tables[i],
\* failAt is the query that fails (0: none does)
RECURSIVE ProfileTables(_, _, _, _, _, _)
ProfileTables(st, tables, i, issued, failAt, metadata) ==
    IF i > Len(tables) THEN Returned(metadata)
    ELSE LET n == QueriesOfTable(st[tables[i]])
         IN  IF failAt > issued /\ failAt <= issued + n
             THEN ProfilingFailed(metadata)
             ELSE ProfileTables(st, tables, i + 1, issued + n, failAt,
                                Append(metadata, table_meta(tables[i], st[tables[i]])))

build_structured_schema_metadata(st, failAt) ==
    IF failAt = 1 THEN ProfilingFailed(<<>>)       \* list_tables raised
    ELSE ProfileTables(st, list_tables(st), 1, 1, failAt, <<>>)

-----------------------------------------------------------------------------
(* infer_relationships_structured *)

Relationship(ta, ca, tb, cb) ==
    [from_table |-> ta.table_name, from_column |-> ca.name,
     to_table |-> tb.table_name, to_column |-> cb.name,
     relationship_type |-> "many_to_one"]

\* a match that would leave out the type, and one that would leave out the name
ColumnsMatchNameOnly(col_a, col_b) == col_a.name = col_b.name

ColumnsMatchTypeOnly(col_a, col_b) == col_a.type = col_b.type

\* Match by name and type
ColumnsMatch(col_a, col_b) == col_a.name = col_b.name /\ col_a.type = col_b.type

\* a detection that would not ask col_a to be non-unique
IsManyToOneToUnique(col_a, col_b) == col_b.unique

\* many_to_one detection
IsManyToOne(col_a, col_b) == col_b.unique /\ ~col_a.unique

\* relationships.insert(0, ...), were the list built from the front
EmitFirst(rels, rel) == <<rel>> \o rels

\* relationships.append(...)
Emit(rels, rel) == Append(rels, rel)

RECURSIVE ColBLoop(_, _, _, _, _)
ColBLoop(ta, tb, col_a, j, rels) ==
    IF j > Len(tb.columns) THEN rels
    ELSE LET col_b == tb.columns[j]
         IN  ColBLoop(ta, tb, col_a, j + 1,
                      IF ColumnsMatch(col_a, col_b) /\ IsManyToOne(col_a, col_b)
                      THEN Emit(rels, Relationship(ta, col_a, tb, col_b))
                      ELSE rels)

RECURSIVE ColALoop(_, _, _, _)
ColALoop(ta, tb, i, rels) ==
    IF i > Len(ta.columns) THEN rels
    ELSE ColALoop(ta, tb, i + 1, ColBLoop(ta, tb, ta.columns[i], 1, rels))

RECURSIVE TableBLoop(_, _, _, _)
TableBLoop(metadata, a, b, rels) ==
    IF b > Len(metadata) THEN rels
    ELSE TableBLoop(metadata, a, b + 1,
                    IF metadata[a].table_name = metadata[b].table_name
                    THEN rels
                    ELSE ColALoop(metadata[a], metadata[b], 1, rels))

RECURSIVE TableALoop(_, _, _)
TableALoop(metadata, a, rels) ==
    IF a > Len(metadata) THEN rels
    ELSE TableALoop(metadata, a + 1, TableBLoop(metadata, a, 1, rels))

\* the inference over one metadata list
InferFrom(metadata) == TableALoop(metadata, 1, <<>>)

\* the method: it profiles the store again, then infers
infer_relationships_structured(st, failAt) ==
    LET built == build_structured_schema_metadata(st, failAt)
    IN  IF built.raised
        THEN Raised("Structured relationship inference failed")
        ELSE Returned(InferFrom(built.value))

-----------------------------------------------------------------------------
(* Text: the str methods and regular expressions the generator uses *)

\* A TLA+ string cannot hold the grave accent: "~", which no text of the model
\* uses otherwise, stands for it (like it, neither a word character nor a space).
Backtick == "~"

\* the code-fence marker of Markdown, three grave accents (FENCE in the comments)
Fence == Backtick \o Backtick \o Backtick

LowerAlphabet == "abcdefghijklmnopqrstuvwxyz"

UpperAlphabet == "ABCDEFGHIJKLMNOPQRSTUVWXYZ"

Digits == "0123456789"

CharAt(s, i) == SubSeq(s, i, i)

Letters(alphabet) == {CharAt(alphabet, k) : k \in 1..Len(alphabet)}

UpperOf == [c \in Letters(LowerAlphabet) |-> CharAt(UpperAlphabet, Find(c, LowerAlphabet))]

LowerOf == [c \in Letters(UpperAlphabet) |-> CharAt(LowerAlphabet, Find(c, UpperAlphabet))]

WordChars == Letters(LowerAlphabet) \cup Letters(UpperAlphabet) \cup Letters(Digits) \cup {"_"}

UpperChar(c) == IF c \in DOMAIN UpperOf THEN UpperOf[c] ELSE c

LowerChar(c) == IF c \in DOMAIN LowerOf THEN LowerOf[c] ELSE c

\* the characters lo..hi of s, each mapped; halved so that the evaluation stays shallow
RECURSIVE UpperRange(_, _, _)
UpperRange(s, lo, hi) ==
    IF lo > hi THEN ""
    ELSE IF lo = hi THEN UpperChar(CharAt(s, lo))
    ELSE UpperRange(s, lo, (lo + hi) \div 2) \o UpperRange(s, (lo + hi) \div 2 + 1, hi)

RECURSIVE LowerRange(_, _, _)
LowerRange(s, lo, hi) ==
    IF lo > hi THEN ""
    ELSE IF lo = hi THEN LowerChar(CharAt(s, lo))
    ELSE LowerRange(s, lo, (lo + hi) \div 2) \o LowerRange(s, (lo + hi) \div 2 + 1, hi)

\* str.upper, str.lower
Upper(s) == UpperRange(s, 1, Len(s))

Lower(s) == LowerRange(s, 1, Len(s))

IsSpace(c) == c \in {" ", "\n", "\t", "\r"}

\* \w of the re module
IsWordChar(c) == c \in WordChars

\* the first position from i on that holds no white space, Len(s) + 1 if none
FirstNonSpace(s, i) ==
    LET at == {k \in i..Len(s) : ~IsSpace(CharAt(s, k))}
    IN  IF at = {} THEN (IF i > Len(s) THEN i ELSE Len(s) + 1) ELSE Least(at)

\* the last position up to i that holds no white space, 0 if none
LastNonSpace(s, i) ==
    LET at == {k \in 1..i : ~IsSpace(CharAt(s, k))}
    IN  IF at = {} THEN 0 ELSE CHOOSE k \in at : \A j \in at : j <= k

\* str.strip
Strip(s) == SubSeq(s, FirstNonSpace(s, 1), LastNonSpace(s, Len(s)))

\* str.startswith, str.endswith
StartsWith(s, prefix) == Len(prefix) <= Len(s) /\ SubSeq(s, 1, Len(prefix)) = prefix

EndsWith(s, suffix) ==
    Len(suffix) <= Len(s) /\ SubSeq(s, Len(s) - Len(suffix) + 1, Len(s)) = suffix

\* str.replace(old, ""): every non-overlapping occurrence, left to right
RECURSIVE RemoveAllFrom(_, _, _)
RemoveAllFrom(s, old, i) ==
    LET at == FindFrom(old, s, i)
    IN  IF at = 0 THEN SubSeq(s, i, Len(s))
        ELSE SubSeq(s, i, at - 1) \o RemoveAllFrom(s, old, at + Len(old))

RemoveAll(s, old) == RemoveAllFrom(s, old, 1)

\* re.search(rf"\b{keyword}\b", s): the keyword begins and ends with a word
\* character, so \b holds where its neighbour is no word character
WordSearch(keyword, s) ==
    \E i \in 1..(Len(s) - Len(keyword) + 1) :
        LET e == i + Len(keyword) - 1
        IN  /\ SubSeq(s, i, e) = keyword
            /\ (i = 1 \/ ~IsWordChar(CharAt(s, i - 1)))
            /\ (e = Len(s) \/ ~IsWordChar(CharAt(s, e + 1)))

\* re.sub(r"^FENCE.*?\n", "", sql, flags=re.DOTALL): an opening fence with the
\* rest of its line, removed up to and with the first line break after it
StripOpeningFence(sql) ==
    IF ~StartsWith(sql, Fence) THEN sql
    ELSE LET nl == FindFrom("\n", sql, 4)
         IN  IF nl = 0 THEN sql ELSE SubSeq(sql, nl + 1, Len(sql))

\* re.sub(r"FENCE$", "", sql): $ matches at the end and before a final line break
StripClosingFence(sql) ==
    IF EndsWith(sql, Fence) THEN SubSeq(sql, 1, Len(sql) - 3)
    ELSE IF EndsWith(sql, Fence \o "\n") THEN SubSeq(sql, 1, Len(sql) - 4) \o "\n"
    ELSE sql

-----------------------------------------------------------------------------
(* json.loads, for the texts the backend is drawn from: an object whose      *)
(* members are strings without escapes; any other text is a decode error.    *)

JsonError == [ok |-> FALSE, members |-> <<>>, next |-> 0]

\* a string literal opening at s[i]
JsonString(s, i) ==
    IF i > Len(s) \/ CharAt(s, i) # "\"" THEN [ok |-> FALSE, value |-> "", next |-> 0]
    ELSE LET close == FindFrom("\"", s, i + 1)
         IN  IF close = 0 \/ Contains("\\", SubSeq(s, i + 1, close - 1))
             THEN [ok |-> FALSE, value |-> "", next |-> 0]
             ELSE [ok |-> TRUE, value |-> SubSeq(s, i + 1, close - 1), next |-> close + 1]

\* members from s[i] on, after "{" or ","
RECURSIVE JsonMembers(_, _, _)
JsonMembers(s, i, members) ==
    LET key == JsonString(s, FirstNonSpace(s, i))
        colon == FirstNonSpace(s, key.next)
        val == JsonString(s, FirstNonSpace(s, colon + 1))
        after == FirstNonSpace(s, val.next)
    IN  IF ~key.ok \/ colon > Len(s) \/ CharAt(s, colon) # ":" \/ ~val.ok \/ after > Len(s)
        THEN JsonError
        ELSE LET found == Append(members, [key |-> key.value, value |-> val.value])
             IN  IF CharAt(s, after) = "," THEN JsonMembers(s, after + 1, found)
                 ELSE IF CharAt(s, after) = "}"
                      THEN [ok |-> TRUE, members |-> found, next |-> after + 1]
                      ELSE JsonError

json_loads(s) ==
    LET open == FirstNonSpace(s, 1)
    IN  IF open > Len(s) \/ CharAt(s, open) # "{" THEN JsonError
        ELSE LET first == FirstNonSpace(s, open + 1)
                 obj == IF first <= Len(s) /\ CharAt(s, first) = "}"
                        THEN [ok |-> TRUE, members |-> <<>>, next |-> first + 1]
                        ELSE JsonMembers(s, open + 1, <<>>)
             IN  IF obj.ok /\ FirstNonSpace(s, obj.next) > Len(s) THEN obj ELSE JsonError

\* key in parsed
HasKey(obj, key) == \E i \in 1..Len(obj.members) : obj.members[i].key = key

\* parsed[key]: of a repeated key the last member stands
RECURSIVE GetKeyFrom(_, _, _)
GetKeyFrom(obj, key, i) ==
    IF i < 1 THEN ""
    ELSE IF obj.members[i].key = key THEN obj.members[i].value
    ELSE GetKeyFrom(obj, key, i - 1)

GetKey(obj, key) == GetKeyFrom(obj, key, Len(obj.members))

-----------------------------------------------------------------------------
(* SQLValidator and LLMSQLGenerator *)

FORBIDDEN_KEYWORDS == <<"DROP", "DELETE", "UPDATE", "INSERT", "ALTER", "TRUNCATE", "CREATE">>

NoError == ""

OnlySelectAllowed == "Only SELECT statements are allowed."

ForbiddenKeywordDetected(keyword) == "Forbidden SQL keyword detected: " \o keyword

UnknownTables == "Generated SQL does not reference known tables."

InvalidJsonResponse(raw_sql) == "Invalid JSON response:\n" \o raw_sql

RECURSIVE FirstForbidden(_, _)
FirstForbidden(sql_upper, k) ==
    IF k > Len(FORBIDDEN_KEYWORDS) THEN NoError
    ELSE IF WordSearch(FORBIDDEN_KEYWORDS[k], sql_upper)
         THEN ForbiddenKeywordDetected(FORBIDDEN_KEYWORDS[k])
         ELSE FirstForbidden(sql_upper, k + 1)

\* SQLValidator.validate: the message of the ValueError it raises, NoError if none
SQLValidator_validate(sql) ==
    LET sql_upper == Upper(sql)
    IN  IF ~StartsWith(Strip(sql_upper), "SELECT") THEN OnlySelectAllowed
        ELSE FirstForbidden(sql_upper, 1)

known_tables(metadata) == {metadata[i].table_name : i \in 1..Len(metadata)}

\* _basic_sql_validation: TRUE where it returns True, FALSE where it raises
basic_sql_validation(sql, metadata) ==
    LET sql_lower == Lower(sql)
    IN  \E table \in known_tables(metadata) : Contains(Lower(table), sql_lower)

Section(name, text, data) == [section |-> name, text |-> text, data |-> data]

\* the condition with "or" for "and"
IncludeRelationshipsEither(metadata, rels) == Len(metadata) > 1 \/ rels # <<>>

\* Include relationships only if meaningful
IncludeRelationships(metadata, rels) == Len(metadata) > 1 /\ rels # <<>>

\* _build_prompt: the sections of the prompt text in their order; json.dumps
\* of the metadata and of the relationships is carried as the value it prints
build_prompt(user_query, metadata, rels, reasoning) ==
    <<Section("base_instruction",
              IF reasoning THEN "Return strictly valid JSON" ELSE "Return ONLY the SQL query.",
              <<>>),
      Section("User Question:", user_query, <<>>),
      Section("Available Database Metadata:", "", metadata)>>
    \o (IF IncludeRelationships(metadata, rels)
        THEN <<Section("Inferred Relationships:", "", rels)>>
        ELSE <<>>)
    \o <<Section("Generate the SQL query:", "", <<>>)>>

ReturnedSql(sql, raw_sql) ==
    [kind |-> "sql", sql_query |-> sql, reasoning |-> "", error |-> NoError,
     raw_sql |-> raw_sql, candidate |-> sql, checked |-> TRUE]

ReturnedPair(sql, explanation, raw_sql) ==
    [kind |-> "pair", sql_query |-> sql, reasoning |-> explanation, error |-> NoError,
     raw_sql |-> raw_sql, candidate |-> sql, checked |-> TRUE]

\* a ValueError; candidate is the SQL the guardrail saw, if it got that far
RaisedValueError(msg, raw_sql, sql, checked) ==
    [kind |-> "error", sql_query |-> "", reasoning |-> "", error |-> msg,
     raw_sql |-> raw_sql, candidate |-> sql, checked |-> checked]

NoOutcome ==
    [kind |-> "none", sql_query |-> "", reasoning |-> "", error |-> NoError,
     raw_sql |-> "", candidate |-> "", checked |-> FALSE]

\* line 143: self.llm.generate(prompt).strip().replace(FENCE, "").replace('json', '')
normalize_response(response) == RemoveAll(RemoveAll(Strip(response), Fence), "json")

\* lines 165-169: Clean markdown, then drop a leading 'sql'
clean_markdown(raw_sql) ==
    LET sql == Strip(StripClosingFence(StripOpeningFence(raw_sql)))
    IN  IF StartsWith(Lower(sql), "sql") THEN Strip(SubSeq(sql, 4, Len(sql))) ELSE sql

\* lines 145-159; every exception of the try block, the guardrail's too, is
\* caught and raised again as the invalid-JSON ValueError
generate_reasoning(raw_sql, metadata) ==
    LET parsed == json_loads(raw_sql)
    IN  IF ~parsed.ok \/ ~HasKey(parsed, "sql_query") \/ ~HasKey(parsed, "reasoning")
        THEN RaisedValueError(InvalidJsonResponse(raw_sql), raw_sql, "", FALSE)
        ELSE LET sql == GetKey(parsed, "sql_query")
                 explanation == GetKey(parsed, "reasoning")
             IN  IF ~basic_sql_validation(sql, metadata)
                 THEN RaisedValueError(InvalidJsonResponse(raw_sql), raw_sql, sql, TRUE)
                 ELSE ReturnedPair(sql, explanation, raw_sql)

\* lines 161-173
generate_plain(raw_sql, metadata) ==
    LET sql == clean_markdown(raw_sql)
    IN  IF ~basic_sql_validation(sql, metadata)
        THEN RaisedValueError(UnknownTables, raw_sql, sql, TRUE)
        ELSE ReturnedSql(sql, raw_sql)

\* generate_sql, given what the backend answered to the prompt
generate_sql(metadata, reasoning, response) ==
    LET raw_sql == normalize_response(response)
    IN  IF reasoning THEN generate_reasoning(raw_sql, metadata)
        ELSE generate_plain(raw_sql, metadata)

-----------------------------------------------------------------------------
(* EmbeddingStore and SemanticRetriever *)

\* a metadata dict of one row
RowMeta(table, row_id) == [table |-> table, row_id |-> row_id]

\* the rows build_index is called with, each with its metadata entry
RowPool ==
    { [text |-> "order 1 region North", meta |-> RowMeta("orders", 1)],
      [text |-> "order 2 region South", meta |-> RowMeta("orders", 2)],
      [text |-> "customer Acme", meta |-> RowMeta("customers", 1)] }

\* one call's rows and metadatas: as many metadata entries as rows, at least one row
Batches == UNION { [1..n -> RowPool] : n \in 1..MaxBatch }

Queries == {"Which orders are from North region?", "Who is Acme?"}

\* self.model.encode(..., normalize_embeddings=True): a vector of unit length
\* for every text, here in two dimensions and scaled by 5
Encode ==
    [text \in {r.text : r \in RowPool} \cup Queries |->
        CASE text = "order 1 region North" -> <<3, 4>>
          [] text = "order 2 region South" -> <<4, 3>>
          [] text = "customer Acme" -> <<5, 0>>
          [] text = "Which orders are from North region?" -> <<0, 5>>
          [] OTHER -> <<4, 3>>]

\* the inner product of IndexFlatIP
InnerProduct(u, v) == u[1] * v[1] + u[2] * v[2]

\* what IndexFlatIP.search puts in the places it has no neighbour for: the
\* label -1 and the lowest distance, below every inner product
NoNeighbour == [idx |-> -1, dist |-> -26]

\* an EmbeddingStore object; index = None is has_index = FALSE
EmbeddingStoreOf(has_index, index, metadata) ==
    [constructed |-> TRUE, has_index |-> has_index, index |-> index, metadata |-> metadata]

NoEmbeddingStore ==
    [constructed |-> FALSE, has_index |-> FALSE, index |-> <<>>, metadata |-> <<>>]

\* the files faiss_index and faiss_meta.pkl of store_dir
NoFiles == [exists |-> FALSE, index |-> <<>>, metadata |-> <<>>]

Files(index, metadata) == [exists |-> TRUE, index |-> index, metadata |-> metadata]

\* EmbeddingStore.__init__ and load_store
EmbeddingStore_init(files) ==
    IF files.exists THEN EmbeddingStoreOf(TRUE, files.index, files.metadata)
    ELSE EmbeddingStoreOf(FALSE, <<>>, <<>>)

\* the keyword parameters of EmbeddingStore.__init__
EmbeddingStoreParams == {"embedding_model_name", "store_dir"}

\* the keywords SemanticRetriever.__init__ passes
SemanticRetrieverPasses == {"embedding_model_name", "store_path"}

\* a call binds its keywords to parameters, or raises TypeError
Binds(keywords, params) == keywords \subseteq params

\* SemanticRetriever.__init__
SemanticRetriever_init ==
    IF Binds(SemanticRetrieverPasses, EmbeddingStoreParams) THEN "ready" ELSE "TypeError"

\* build_index, before save_store
build_index(es, batch, rebuild) ==
    LET embeddings == [i \in 1..Len(batch) |-> Encode[batch[i].text]]
        metadatas == [i \in 1..Len(batch) |-> batch[i].meta]
    IN  IF rebuild \/ ~es.has_index
        THEN EmbeddingStoreOf(TRUE, embeddings, metadatas)
        ELSE EmbeddingStoreOf(TRUE, es.index \o embeddings, es.metadata \o metadatas)

\* save_store
save_store(es) == Files(es.index, es.metadata)

\* self.index.search(q_emb, top_k): the labels (from 0) and distances of the
\* nearest rows, best first, rows of equal distance in any order; the places
\* beyond the number of rows hold NoNeighbour
index_search(index, q_emb, top_k) ==
    LET n == Len(index)
        k == IF top_k < n THEN top_k ELSE n
        dist(j) == InnerProduct(q_emb, index[j])
        ranks == { r \in [1..k -> 1..n] :
                     /\ \A i, j \in 1..k : i < j => r[i] # r[j] /\ dist(r[i]) >= dist(r[j])
                     /\ \A j \in 1..n :
                           (\A i \in 1..k : r[i] # j) => \A i \in 1..k : dist(j) <= dist(r[i]) }
    IN  { [i \in 1..top_k |->
             IF i <= k THEN [idx |-> r[i] - 1, dist |-> dist(r[i])] ELSE NoNeighbour]
          : r \in ranks }

\* list[idx] of Python: a negative idx counts from the end
ListIndexInRange(list, idx) == idx >= -Len(list) /\ idx < Len(list)

ListIndex(list, idx) == IF idx < 0 THEN list[Len(list) + idx + 1] ELSE list[idx + 1]

\* {**meta, "score": float(dist)}
Result(meta, dist) == [table |-> meta.table, row_id |-> meta.row_id, score |-> dist]

Found(query, top_k, neighbours, results) ==
    [kind |-> "results", error |-> "", query |-> query, top_k |-> top_k,
     neighbours |-> neighbours, results |-> results]

SearchRaised(query, top_k, neighbours, error) ==
    [kind |-> "error", error |-> error, query |-> query, top_k |-> top_k,
     neighbours |-> neighbours, results |-> <<>>]

NoFound ==
    [kind |-> "none", error |-> "", query |-> "", top_k |-> 0,
     neighbours |-> <<>>, results |-> <<>>]

\* the loop of search over what the index returned
search_results(es, query, top_k, neighbours) ==
    IF \E i \in 1..Len(neighbours) : ~ListIndexInRange(es.metadata, neighbours[i].idx)
    THEN SearchRaised(query, top_k, neighbours, "IndexError")
    ELSE Found(query, top_k, neighbours,
               [i \in 1..Len(neighbours) |->
                   Result(ListIndex(es.metadata, neighbours[i].idx), neighbours[i].dist)])

\* EmbeddingStore.search: the outcomes it may have
search(es, query, top_k) ==
    IF ~es.has_index THEN {SearchRaised(query, top_k, <<>>, "AttributeError")}
    ELSE { search_results(es, query, top_k, neighbours) :
             neighbours \in index_search(es.index, Encode[query], top_k) }

\* SemanticRetriever.query
query(es, query_str, top_k) == search(es, query_str, top_k)

-----------------------------------------------------------------------------
(* The pipeline: pipeline.py and the callers of the two classes *)

UserQueries == {"Which industry generated highest revenue?"}

\* What the backend may answer: any text. These are the answers tried
\* ("~" stands for the grave accent).
BackendResponses ==
    { "SELECT * FROM orders",
      "SELECT * FROM orders; DROP TABLE orders",
      "UPDATE orders SET x=1",
      "SELECT * FROM ghost",
      "  select id from Customers\n",
      "~~~sql\nSELECT * FROM orders\n~~~",
      "SELECT json_col FROM orders",
      "sql SELECT * FROM orders",
      "SELECT dropped FROM orders",
      "SELECT * FROM orders -- delete",
      "{\"reasoning\":\"...\", \"sql_query\":\"SELECT 1\"}",
      "not json",
      "{\"reasoning\":\"join on id\", \"sql_query\":\"SELECT * FROM orders\"}",
      "{\"reasoning\":\"no such table\", \"sql_query\":\"SELECT * FROM ghost\"}",
      "{\"reasoning\":\"read the json column\", \"sql_query\":\"SELECT json_col FROM orders\"}",
      "{\"sql_query\":\"SELECT * FROM orders\"}",
      "~~~json\n{\"reasoning\":\"r\", \"sql_query\":\"SELECT * FROM orders\"}\n~~~",
      "{\"reasoning\":\"r\", \"sql_query\":\"DROP TABLE orders\"}",
      "",
      "{\"reasoning\":\"a\", \"reasoning\":\"b\", \"sql_query\":\"SELECT * FROM orders\" }  ",
      "{}",
      "{\"sql_query\":\"SELECT * FROM orders\", \"reasoning\":\"r\"} trailing",
      "~~~\nSELECT * FROM customers\n~~~\n",
      "~~json~\nSELECT * FROM orders",
      "~~~sql\nSELECT json_col FROM orders\n~~~" }

NoRequest == [user_query |-> "", reasoning |-> FALSE, response |-> ""]

Init ==
    /\ store = EmptyStore
    /\ registered = 0
    /\ pc = "start"
    /\ schema_metadata = <<>>
    /\ fault = 0
    /\ relationships = <<>>
    /\ request = NoRequest
    /\ prompt = <<>>
    /\ outcome = NoOutcome
    /\ executed = <<>>
    /\ store_dir = NoFiles
    /\ embedding_store = NoEmbeddingStore
    /\ retriever = "none"
    /\ retrieved = NoFound

\* db.register_csv(file_path, table_name), before profiling or between the
\* two calls of lines 8 and 9
RegisterCsv ==
    /\ pc \in {"start", "built"}
    /\ registered < MaxRegister
    /\ \E table_name \in PipelineTables, csv \in CsvFiles :
          store' = register_csv_store(store, table_name, csv)
    /\ registered' = registered + 1
    /\ UNCHANGED <<pc, schema_metadata, fault, relationships, request, prompt,
                   outcome, executed>>
    /\ UNCHANGED retrievalVars

\* pipeline.py:8   schema_metadata = db.build_structured_schema_metadata()
BuildMetadata ==
    /\ pc = "start"
    /\ \E failAt \in 0..QueriesOfPass(store) :
          LET built == build_structured_schema_metadata(store, failAt)
          IN  /\ fault' = failAt
              /\ IF built.raised
                 THEN pc' = "build_failed" /\ UNCHANGED schema_metadata
                 ELSE pc' = "built" /\ schema_metadata' = built.value
    /\ UNCHANGED <<store, registered, relationships, request, prompt, outcome, executed>>
    /\ UNCHANGED retrievalVars

\* pipeline.py:9   relationships = db.infer_relationships_structured();
\* a caller may ask again. Whichever query of its profiling pass fails, the
\* method raises the same error: none, the first or the last one fails.
InferRelationships ==
    /\ pc \in {"built", "inferred"}
    /\ \E failAt \in {0, 1, QueriesOfPass(store)} :
          LET inferred == infer_relationships_structured(store, failAt)
          IN  IF inferred.raised
              THEN pc' = "infer_failed" /\ UNCHANGED relationships
              ELSE pc' = "inferred" /\ relationships' = inferred.value
    /\ UNCHANGED <<store, registered, schema_metadata, fault, request, prompt,
                   outcome, executed>>
    /\ UNCHANGED retrievalVars

\* pipeline.py:18  generator.generate_sql(user_query, schema_metadata, relationships)
GenerateSql ==
    /\ pc = "inferred"
    /\ \E user_query \in UserQueries, reasoning \in BOOLEAN, response \in BackendResponses :
          LET result == generate_sql(schema_metadata, reasoning, response)
          IN  /\ request' = [user_query |-> user_query, reasoning |-> reasoning,
                             response |-> response]
              /\ prompt' = build_prompt(user_query, schema_metadata, relationships, reasoning)
              /\ outcome' = result
              /\ pc' = IF result.kind = "error" THEN "generate_failed" ELSE "generated"
    /\ UNCHANGED <<store, registered, schema_metadata, fault, relationships, executed>>
    /\ UNCHANGED retrievalVars

\* pipeline.py:28  db.execute_query(sql)
ExecuteQuery ==
    /\ pc = "generated"
    /\ executed' = Append(executed, outcome.sql_query)
    /\ pc' = "executed"
    /\ UNCHANGED <<store, registered, schema_metadata, fault, relationships, request,
                   prompt, outcome>>
    /\ UNCHANGED retrievalVars

Next == RegisterCsv \/ BuildMetadata \/ InferRelationships \/ GenerateSql \/ ExecuteQuery

Spec == Init /\ [][Next]_vars

\* Relationship inference over every catalog within the bounds, each already
\* profiled once (pipeline.py:8 done).
InitInference ==
    /\ store \in InferenceStores
    /\ registered = 0
    /\ pc = "built"
    /\ schema_metadata = build_structured_schema_metadata(store, 0).value
    /\ fault = 0
    /\ relationships = <<>>
    /\ request = NoRequest
    /\ prompt = <<>>
    /\ outcome = NoOutcome
    /\ executed = <<>>
    /\ store_dir = NoFiles
    /\ embedding_store = NoEmbeddingStore
    /\ retriever = "none"
    /\ retrieved = NoFound

NextInference == InferRelationships

SpecInference == InitInference /\ [][NextInference]_vars

\* EmbeddingStore(store_dir=...): a caller constructs the store, in this or in
\* a later process
NewEmbeddingStore ==
    /\ embedding_store' = EmbeddingStore_init(store_dir)
    /\ UNCHANGED <<store_dir, retriever, retrieved>>
    /\ UNCHANGED pipelineVars

\* SemanticRetriever(): test_semantic_retriever.py setUp
NewSemanticRetriever ==
    /\ retriever' = SemanticRetriever_init
    /\ IF SemanticRetriever_init = "ready"
       THEN embedding_store' = EmbeddingStore_init(store_dir)
       ELSE UNCHANGED embedding_store
    /\ UNCHANGED <<store_dir, retrieved>>
    /\ UNCHANGED pipelineVars

\* store.build_index(rows, metadatas, rebuild), save_store included
BuildIndex ==
    /\ embedding_store.constructed
    /\ \E batch \in Batches, rebuild \in BOOLEAN :
          LET es == build_index(embedding_store, batch, rebuild)
          IN  /\ Len(es.index) <= MaxIndexed
              /\ embedding_store' = es
              /\ store_dir' = save_store(es)
    /\ UNCHANGED <<retriever, retrieved>>
    /\ UNCHANGED pipelineVars

\* query(query_str, top_k) of a retriever over this store, which is
\* store.search(query_str, top_k=top_k)
Query ==
    /\ embedding_store.constructed
    /\ \E query_str \in Queries, top_k \in 1..MaxTopK :
          retrieved' \in query(embedding_store, query_str, top_k)
    /\ UNCHANGED <<store_dir, embedding_store, retriever>>
    /\ UNCHANGED pipelineVars

NextRetrieval == NewEmbeddingStore \/ NewSemanticRetriever \/ BuildIndex \/ Query

SpecRetrieval == Init /\ [][NextRetrieval]_vars

-----------------------------------------------------------------------------
(* Properties *)

Generated == pc \in {"generated", "generate_failed", "executed"}

ReturnedValue == outcome.kind \in {"sql", "pair"}

IsFormatError(msg) == StartsWith(msg, "Invalid JSON response:")

\* C1: every value generate_sql returns (the SQL in plain mode, the sql_query
\* of the pair in reasoning mode) starts with SELECT, holds no denylisted
\* keyword as a whole word and names a known table, and so does every SQL
\* handed to execute_query.
C1_ReturnedSqlPassedAllChecks ==
    /\ ReturnedValue =>
          /\ SQLValidator_validate(outcome.sql_query) = NoError
          /\ basic_sql_validation(outcome.sql_query, schema_metadata)
    /\ \A i \in 1..Len(executed) :
          /\ SQLValidator_validate(executed[i]) = NoError
          /\ basic_sql_validation(executed[i], schema_metadata)

\* the verdict of the three checks in the order of the claim: the
\* statement kind, then the denylist, then the table reference
ThreeChecks(sql, metadata) ==
    IF SQLValidator_validate(sql) # NoError THEN SQLValidator_validate(sql)
    ELSE IF ~basic_sql_validation(sql, metadata) THEN UnknownTables
    ELSE NoError

\* C2: the guardrail applies three checks to a statement, short-circuiting
\* in the order not-a-SELECT, forbidden keyword, unknown table reference, and
\* passes the statement otherwise: in plain mode the error generate_sql
\* raises for its candidate SQL (none if it returns it) is that verdict.
C2_GuardrailAppliesThreeChecks ==
    (Generated /\ ~request.reasoning /\ outcome.checked) =>
        outcome.error = ThreeChecks(outcome.candidate, schema_metadata)

\* C3: when the guardrail rejects the candidate SQL, in either mode, the
\* error generate_sql raises is a guardrail error and not the format error of
\* an unparsable reasoning-mode response.
C3_GuardrailRejectionIsNotFormatError ==
    (Generated /\ outcome.checked /\ ~basic_sql_validation(outcome.candidate, schema_metadata)) =>
        /\ outcome.kind = "error"
        /\ ~IsFormatError(outcome.error)

\* C4: in reasoning mode a response that is a JSON object with the string
\* fields sql_query and reasoning yields the pair of the two fields, both
\* unchanged (where the guardrail accepts the sql_query field); a response that
\* is no JSON or lacks a field fails with the format error carrying the raw
\* text. Stated for the responses without a code fence, which normalisation
\* is to leave as they are.
C4_ReasoningPairUnchanged ==
    (Generated /\ request.reasoning /\ ~Contains(Fence, request.response)) =>
        LET text == Strip(request.response)
            parsed == json_loads(text)
        IN  IF parsed.ok /\ HasKey(parsed, "sql_query") /\ HasKey(parsed, "reasoning")
            THEN basic_sql_validation(GetKey(parsed, "sql_query"), schema_metadata) =>
                    /\ outcome.kind = "pair"
                    /\ outcome.sql_query = GetKey(parsed, "sql_query")
                    /\ outcome.reasoning = GetKey(parsed, "reasoning")
            ELSE /\ outcome.kind = "error"
                 /\ IsFormatError(outcome.error)
                 /\ Contains(text, outcome.error)

\* the metadata the inference profiles: the catalog as it stands
ProfiledMetadata == build_structured_schema_metadata(store, 0).value

Range(seq) == {seq[i] : i \in 1..Len(seq)}

\* the many-to-one tuples of the claim, over the ordered pairs of distinct tables
ManyToOneTuples(metadata) ==
    { Relationship(metadata[a], metadata[a].columns[i], metadata[b], metadata[b].columns[j]) :
        <<a, b, i, j>> \in
            { q \in (1..Len(metadata)) \X (1..Len(metadata)) \X (1..MaxCols + 1) \X (1..MaxCols + 1) :
                /\ q[1] # q[2]
                /\ q[3] <= Len(metadata[q[1]].columns)
                /\ q[4] <= Len(metadata[q[2]].columns)
                /\ LET ca == metadata[q[1]].columns[q[3]]
                       cb == metadata[q[2]].columns[q[4]]
                   IN  /\ ca.name = cb.name
                       /\ ca.type = cb.type
                       /\ cb.distinct_count = metadata[q[2]].row_count
                       /\ ca.distinct_count # metadata[q[1]].row_count } }

\* C5: the relationships inferred are exactly the tuples (A, ca, B, cb,
\* many_to_one) over ordered pairs of distinct tables with ca.name = cb.name,
\* ca.type = cb.type, cb unique and ca not unique; a column whose distinct
\* count equals the row count of its table is never the from side.
C5_ExactlyManyToOneTuples ==
    pc = "inferred" =>
        /\ Range(relationships) = ManyToOneTuples(ProfiledMetadata)
        /\ \A r \in Range(relationships), t \in AllTableNames :
              (store[t].present /\ r.from_table = t) =>
                 \A k \in 1..Len(store[t].columns) :
                    store[t].columns[k].distinct_count = store[t].row_count
                       => r.from_column # store[t].columns[k].name

C5_Witness ==
    /\ pc = "inferred"
    /\ Len(relationships) >= 1
    /\ \E t \in AllTableNames : \E k \in 1..Len(store[t].columns) :
          /\ store[t].present
          /\ store[t].columns[k].distinct_count = store[t].row_count
          /\ \E r \in Range(relationships) : r.to_table = t /\ r.to_column = store[t].columns[k].name

\* the schema of the scenario: orders(id unique, customer_id) and
\* customers(id unique, name)
ScenarioStore ==
    [EmptyStore EXCEPT !["orders"] = OrdersCsv, !["customers"] = CustomersCsv]

\* the same with the key of customers named customer_id
KeyedScenarioStore ==
    [EmptyStore EXCEPT !["orders"] = OrdersCsv, !["customers"] = CustomersKeyedCsv]

Edge(ft, fc, tt, tc) ==
    [from_table |-> ft, from_column |-> fc, to_table |-> tt, to_column |-> tc,
     relationship_type |-> "many_to_one"]

\* C6 as stated: on orders(id unique, customer_id) and customers(id unique,
\* name) inference yields exactly orders.customer_id -> customers.id.
C6_ScenarioYieldsCustomerIdToId ==
    (pc = "inferred" /\ store = ScenarioStore) =>
        relationships = <<Edge("orders", "customer_id", "customers", "id")>>

\* C6 amended: on that schema inference yields no relationship (customer_id
\* and id differ in name, the two id columns are both unique); with the key
\* of customers named customer_id it yields exactly
\* orders.customer_id -> customers.customer_id and not its reverse.
C6_ScenarioYieldsNothing ==
    /\ (pc = "inferred" /\ store = ScenarioStore) => relationships = <<>>
    /\ (pc = "inferred" /\ store = KeyedScenarioStore) =>
          relationships = <<Edge("orders", "customer_id", "customers", "customer_id")>>

C6_Witness == pc = "inferred" /\ store = ScenarioStore

Inverse(r, q) ==
    /\ r.from_table = q.to_table /\ r.from_column = q.to_column
    /\ r.to_table = q.from_table /\ r.to_column = q.from_column

\* C7: the inferred list holds no entry twice, no relationship from a table
\* to itself, and never an edge together with its inverse.
C7_NoDuplicateSelfOrInverse ==
    pc = "inferred" =>
        /\ \A i, j \in 1..Len(relationships) : i # j => relationships[i] # relationships[j]
        /\ \A i \in 1..Len(relationships) :
              relationships[i].from_table # relationships[i].to_table
        /\ \A i, j \in 1..Len(relationships) : ~Inverse(relationships[i], relationships[j])

\* two tables linked in both directions, on different columns
C7_Witness ==
    /\ pc = "inferred"
    /\ \E i, j \in 1..Len(relationships) :
          /\ relationships[i].from_table = relationships[j].to_table
          /\ relationships[i].to_table = relationships[j].from_table

TablePos(metadata, table_name) ==
    CHOOSE a \in 1..Len(metadata) : metadata[a].table_name = table_name

ColumnPos(metadata, table_name, column) ==
    CHOOSE i \in 1..Len(metadata[TablePos(metadata, table_name)].columns) :
        metadata[TablePos(metadata, table_name)].columns[i].name = column

\* from table, to table, from column, to column: the positions in the input
SortKey(metadata, r) ==
    <<TablePos(metadata, r.from_table), TablePos(metadata, r.to_table),
      ColumnPos(metadata, r.from_table, r.from_column),
      ColumnPos(metadata, r.to_table, r.to_column)>>

RECURSIVE LexLess(_, _, _)
LexLess(x, y, k) ==
    IF k > Len(x) THEN FALSE
    ELSE x[k] < y[k] \/ (x[k] = y[k] /\ LexLess(x, y, k + 1))

Ordered ==
    pc = "inferred" =>
        \A i, j \in 1..Len(relationships) :
            i < j => LexLess(SortKey(ProfiledMetadata, relationships[i]),
                             SortKey(ProfiledMetadata, relationships[j]), 1)

SameAgain ==
    (pc = "inferred" /\ pc' = "inferred" /\ store' = store) => relationships' = relationships

HasSection(name) == \E k \in 1..Len(prompt) : prompt[k].section = name

SectionOf(name) == prompt[CHOOSE k \in 1..Len(prompt) : prompt[k].section = name]

\* C9: the prompt holds the inferred-relationships section if and only if the
\* schema has more than one table and the relationship list is not empty;
\* the user question, the schema metadata and the final generate directive
\* are in every prompt.
C9_RelationshipSectionIffMeaningful ==
    Generated =>
        /\ HasSection("Inferred Relationships:")
              <=> (Len(schema_metadata) > 1 /\ Len(relationships) > 0)
        /\ HasSection("Inferred Relationships:")
              => SectionOf("Inferred Relationships:").data = relationships
        /\ HasSection("User Question:")
        /\ SectionOf("User Question:").text = request.user_query
        /\ HasSection("Available Database Metadata:")
        /\ SectionOf("Available Database Metadata:").data = schema_metadata
        /\ prompt[Len(prompt)].section = "Generate the SQL query:"

\* a prompt without the section although relationships were inferred: one table
C9_Witness ==
    /\ Generated
    /\ Len(schema_metadata) = 1
    /\ Len(relationships) > 0
    /\ ~HasSection("Inferred Relationships:")

TableNamesOf(metadata) == [i \in 1..Len(metadata) |-> metadata[i].table_name]

\* C10: profiling is all-or-nothing: if any query of the pass fails the call
\* raises and hands out no metadata, never the profiles completed before the
\* failure; if none fails it returns one profile for every table the catalog
\* listed, in catalog order.
C10_ProfilingAllOrNothing ==
    [][(pc = "start" /\ pc' # "start") =>
          IF fault' > 0
          THEN pc' = "build_failed" /\ schema_metadata' = <<>>
          ELSE /\ pc' = "built"
               /\ TableNamesOf(schema_metadata') = list_tables(store)
               /\ \A i \in 1..Len(schema_metadata') :
                     schema_metadata'[i] = table_meta(list_tables(store)[i],
                                                      store[list_tables(store)[i]])]_vars

\* a failure after the first of two tables had been profiled
C10_Witness ==
    /\ pc = "build_failed"
    /\ Len(list_tables(store)) = 2
    /\ fault > 1 + QueriesOfTable(store[list_tables(store)[1]])
    /\ schema_metadata = <<>>

\* SQL texts a backend may mean to hand over, one with a format name inside
SqlTexts == {"SELECT * FROM orders", "SELECT json_col FROM orders", "SELECT * FROM customers"}

\* S alone, S in a code fence, S in a code fence with a language tag
Wrappings(S) ==
    {S, Fence \o "\n" \o S \o "\n" \o Fence, Fence \o "sql\n" \o S \o "\n" \o Fence}

\* C11: normalisation removes only the surrounding code-fence markers and a
\* leading language tag: in plain mode a response that is an SQL text S alone,
\* or S in a code fence with or without a language tag, gives the candidate
\* SQL S, a format name inside S left as it is.
C11_NormalizationKeepsSql ==
    (Generated /\ ~request.reasoning) =>
        \A S \in SqlTexts : request.response \in Wrappings(S) => outcome.candidate = S

\* the column of that name of that table, as the metadata records it
RecordedColumns(metadata, table_name, column) ==
    { metadata[a].columns[i] :
        <<a, i>> \in { q \in (1..Len(metadata)) \X (1..MaxCols + 1) :
                          /\ metadata[q[1]].table_name = table_name
                          /\ q[2] <= Len(metadata[q[1]].columns)
                          /\ metadata[q[1]].columns[q[2]].name = column } }

\* C13: the relationships handed to prompt construction come from the same
\* schema snapshot as the schema metadata handed with them: each one's from
\* and to table and column are in that metadata, the to column recorded
\* unique and the from column not, also when register_csv creates or replaces
\* a table between the two calls.
C13_RelationshipsFromMetadataSnapshot ==
    pc \in {"inferred", "generated", "generate_failed", "executed"} =>
        \A r \in Range(relationships) :
            /\ \E ca \in RecordedColumns(schema_metadata, r.from_table, r.from_column) : ~ca.unique
            /\ \E cb \in RecordedColumns(schema_metadata, r.to_table, r.to_column) : cb.unique

\* the results are those of rows of the index that were matched: each the
\* stored metadata of the row at its position, with that row's score
ResultsOfMatchedRows(es, f) ==
    /\ f.kind = "results"
    /\ Len(f.results) >= 1
    /\ Len(f.results) <= f.top_k
    /\ \A i \in 1..Len(f.results) :
          /\ f.neighbours[i].idx \in 0..(Len(es.index) - 1)
          /\ f.results[i] = Result(es.metadata[f.neighbours[i].idx + 1],
                                   InnerProduct(Encode[f.query], es.index[f.neighbours[i].idx + 1]))
    /\ \A i, j \in 1..Len(f.results) : i # j => f.neighbours[i].idx # f.neighbours[j].idx

\* a query answered of a store that holds at least one row
QueryOfIndexedRows == retrieved' # retrieved /\ Len(embedding_store.index) >= 1

\* C12: after any sequence of build_index calls (rebuild or append, as many
\* metadata entries as rows) that leaves at least one row indexed,
\* query(q, top_k) returns a non-empty list of at most top_k results, each
\* the stored metadata (table field included) of the indexed row at the
\* matched position together with its score; with top_k above the number of
\* indexed rows too, where no result stands for a row that was not matched.
C12_QueryReturnsMatchedRows ==
    [][QueryOfIndexedRows => ResultsOfMatchedRows(embedding_store, retrieved')]_vars

====
